---- MODULE Spec2Model ----
(***************************************************************************)
(* Model of blocksci/core/file_mapper.hpp: the write-mode SimpleFileMapper *)
(* (ByteStore), FixedSizeFileMapper (ArrayStore) and IndexedFileMapper     *)
(* (MultiStreamStore), with a read-mode instance on the same files.        *)
(*                                                                         *)
(* A store is a record [file, buffer, writePos, status].  `file' is the    *)
(* shared read/write mapping, i.e. the bytes of the file on disk; `buffer' *)
(* the append buffer; `status' is "ok" while the process runs, "aborted"   *)
(* after a failed assert in a build with assertions, "crashed" after       *)
(* undefined behaviour (a memcpy with a negative count or a null target,   *)
(* which leaves the file on disk as it was).                               *)
(* One unit of offset is one machine word, so that an OffsetType is one    *)
(* cell of the index file and every payload is aligned.                    *)
(*                                                                         *)
(* clearBuffer (flush) and truncate of SimpleFileMapper<write> are only    *)
(* declared in the header; they follow section 4.1 of the specification.   *)
(*                                                                         *)
(* Specifications:                                                         *)
(*   SpecByte   the ByteStore, cursor anywhere in [0, size()]              *)
(*   SpecArray  the ArrayStore of records of sizeofT units                 *)
(*   SpecMulti  the MultiStreamStore, one call per step; a run moves the   *)
(*              cursors away from the end (seek or grow) at most once      *)
(*   SpecRW     a writer whose calls proceed one store operation at a      *)
(*              time, interleaved with the reload of a reader              *)
(*   SpecScenario  20 appends of 8-byte records around maxBufferSize 64    *)
(*   SpecCut    fill, truncate, seek and overwrite of an ArrayStore        *)
(*   SpecOpen   construction, destruction and reopening of a ByteStore on  *)
(*              a path that may not exist or not be mappable               *)
(*   SpecBuilder   ArbitraryLengthData: add, finalize, write               *)
(*   SpecRead   reads by offset and by index, in and out of bounds, on a   *)
(*              writer and on a read-mode instance                         *)
(***************************************************************************)
EXTENDS Integers, Sequences, FiniteSets, TLC

\* ------------------------------------------------------------------ bounds
MaxSize == 4           \* cap on the logical size of the ByteStore
MaxLen == 3            \* cap on the number of records of the ArrayStore
MaxBufferLimit == 2    \* maxBufferSize ranges over 0..MaxBufferLimit
MaxEntries == 2        \* cap on the number of entries of a MultiStreamStore
MaxData == 3           \* cap on the logical size of the data store
MaxAppends == 20       \* records appended in the cross-buffer-flush scenario
MaxFill == 5           \* records appended before the truncate of the overwrite scenario
MaxStaged == 13        \* cap on the bytes staged in an ArbitraryLengthData

\* --------------------------------------------------------- program constants
InvalidFileIndex == 2147483647   \* numeric_limits<OffsetType>::max(), in 32-bit integers
sizeofT == 2                     \* sizeof(T) of the ArrayStore record, in units
indexCount == 2                  \* sizeof...(T): streams of the MultiStreamStore

Byte == {1, 2}                   \* written byte values; 0 is the zero fill
ByteStrings == {<<1>>, <<2>>, <<1, 2>>, <<2, 1>>, <<1, 1, 2>>}
Records == {<<1, 1>>, <<1, 2>>, <<2, 1>>}    \* values of T, as their raw bytes
Payloads == {<<1>>, <<2, 2>>}         \* payloads of T0 and T1, in units

Min(a, b) == IF a < b THEN a ELSE b
Max(a, b) == IF a > b THEN a ELSE b
Zeros(n) == [i \in 1..n |-> 0]

VARIABLES
    store,          \* SimpleFileMapper<write>: the ByteStore under test
    maxBufferSize,  \* SimpleFileMapper<write>::maxBufferSize (configuration)
    ndebug,         \* TRUE when the build compiles assert() away
    last,           \* history: the last completed call, its arguments and result
    hist,           \* history: values appended or flags returned so far
    law,            \* history: the scenario in progress (replay, cut, builder, path)
    dataFile,       \* IndexedFileMapper::dataFile of the writer
    indexFile,      \* IndexedFileMapper::indexFile of the writer
    wpc,            \* the writer's position inside append / attach / flush
    reader,         \* the read-mode instance: mapped lengths and position in reload
    seen            \* history: entries flushed, and entries a reload must observe

multiVars == <<dataFile, indexFile, wpc, reader, seen>>
vars == <<store, maxBufferSize, ndebug, last, hist, law, multiVars>>

\* ------------------------------------------------- SimpleFileMapper<write>
EmptyStore == [file |-> <<>>, buffer |-> <<>>, writePos |-> 0, status |-> "ok"]

\* SimpleFileMapper<write>::size
size(s) == Len(s.file) + Len(s.buffer)

\* The destination of getWritePos(): a position in the mapping, a position
\* in the buffer, or nullptr.
getWritePos(s) ==
    LET fileEnd == Len(s.file)
    IN IF s.writePos < fileEnd
         THEN [region |-> "file", at |-> s.writePos]
         ELSE IF s.writePos < fileEnd + Len(s.buffer)
                THEN [region |-> "buffer", at |-> s.writePos - fileEnd]
                ELSE [region |-> "null", at |-> 0]

writeSpace(s) ==
    LET fileEnd == Len(s.file)
    IN IF s.writePos < fileEnd
         THEN fileEnd - s.writePos
         ELSE IF s.writePos < fileEnd + Len(s.buffer)
                THEN (s.writePos - fileEnd) - Len(s.buffer)
                ELSE 0

\* bytes of `seq' from 0-based position `at' replaced by `bytes'
Overwrite(seq, at, bytes) ==
    [i \in 1..Len(seq) |->
        IF at < i /\ i <= at + Len(bytes) THEN bytes[i - at] ELSE seq[i]]

\* memcpy(getWritePos(), valuePos, writeAmount) followed by writePos += writeAmount.
\* A count that is negative before the cast to size_t, a null destination,
\* or a range that leaves the destination, is undefined behaviour.
memcpyAtWritePos(s, bytes, writeAmount) ==
    LET dst == getWritePos(s)
        room == IF dst.region = "file" THEN Len(s.file) - dst.at
                ELSE IF dst.region = "buffer" THEN Len(s.buffer) - dst.at
                ELSE 0
        part == SubSeq(bytes, 1, writeAmount)
    IN IF writeAmount < 0 \/ (writeAmount > 0 /\ writeAmount > room)
         THEN [s EXCEPT !.status = "crashed"]
         ELSE IF dst.region = "file"
                THEN [s EXCEPT !.file = Overwrite(@, dst.at, part),
                               !.writePos = @ + writeAmount]
                ELSE IF dst.region = "buffer"
                       THEN [s EXCEPT !.buffer = Overwrite(@, dst.at, part),
                                      !.writePos = @ + writeAmount]
                       ELSE s

\* flush: the file grows by the buffer, the buffer is copied into the new
\* tail, the buffer is cleared and the file remapped.
clearBuffer(s) == [s EXCEPT !.file = @ \o s.buffer, !.buffer = <<>>]

\* assert(cond): aborts in a build with assertions, is skipped otherwise
assertThen(cond, nd, s, result) ==
    IF cond \/ nd THEN result ELSE [st |-> [s EXCEPT !.status = "aborted"], ret |-> FALSE]

\* writeExtend with the buffer assigned instead of extended
writeExtend_assign(s, value, limit, nd) ==
    LET s3 == [s EXCEPT !.buffer = value, !.writePos = @ + Len(value)]
        bufferFull == Len(s3.buffer) > limit
    IN [st |-> IF bufferFull THEN clearBuffer(s3) ELSE s3, ret |-> bufferFull]

\* writeExtend testing the threshold before the bytes are inserted
writeExtend_testBefore(s, value, limit, nd) ==
    LET s3 == [s EXCEPT !.buffer = @ \o value, !.writePos = @ + Len(value)]
        bufferFull == Len(s.buffer) > limit
    IN [st |-> IF bufferFull THEN clearBuffer(s3) ELSE s3, ret |-> bufferFull]

\* writeExtend flushing as soon as the buffer reaches the threshold
writeExtend_atLimit(s, value, limit, nd) ==
    LET s3 == [s EXCEPT !.buffer = @ \o value, !.writePos = @ + Len(value)]
        bufferFull == Len(s3.buffer) >= limit
    IN [st |-> IF bufferFull THEN clearBuffer(s3) ELSE s3, ret |-> bufferFull]

\* write, third part: extend the buffer and flush it over the threshold
writeExtend(s, value, limit, nd) ==
    assertThen(s.writePos = Len(s.file) + Len(s.buffer), nd, s,
        LET s3 == [s EXCEPT !.buffer = @ \o value,
                            !.writePos = @ + Len(value)]
            bufferFull == Len(s3.buffer) > limit
        IN [st |-> IF bufferFull THEN clearBuffer(s3) ELSE s3, ret |-> bufferFull])

\* write, second part: overwrite existing buffer space
writeBuffer(s, value, fileEnd, limit, nd) ==
    IF s.writePos >= fileEnd /\ s.writePos < Len(s.buffer)
      THEN LET writeAmount == Min(Len(value), writeSpace(s))
               s2 == memcpyAtWritePos(s, value, writeAmount)
               rest == SubSeq(value, Max(writeAmount, 0) + 1, Len(value))
           IN IF s2.status # "ok" THEN [st |-> s2, ret |-> FALSE]
              ELSE IF Len(rest) = 0 THEN [st |-> s2, ret |-> FALSE]
              ELSE writeExtend(s2, rest, limit, nd)
      ELSE writeExtend(s, value, limit, nd)

\* write without the overwrite into the mapping
write_appendOnly(s, value, limit, nd) == writeBuffer(s, value, Len(s.file), limit, nd)

\* bool write(const char *valuePos, OffsetType amountToWrite)
write(s, value, limit, nd) ==
    LET fileEnd == Len(s.file)
    IN IF s.writePos < fileEnd
         THEN LET writeAmount == Min(Len(value), writeSpace(s))
              IN assertThen(writeAmount > 0, nd, s,
                   LET s1 == memcpyAtWritePos(s, value, writeAmount)
                       rest == SubSeq(value, Max(writeAmount, 0) + 1, Len(value))
                   IN IF s1.status # "ok" THEN [st |-> s1, ret |-> FALSE]
                      ELSE IF Len(rest) = 0 THEN [st |-> s1, ret |-> FALSE]
                      ELSE writeBuffer(s1, rest, fileEnd, limit, nd))
         ELSE writeBuffer(s, value, fileEnd, limit, nd)

\* write-mode reload
reload(s) == clearBuffer(s)

seekEnd(s) == [s EXCEPT !.writePos = Len(s.file) + Len(s.buffer)]

\* seek moving the cursor by `offset' instead of to it
seek_relative(s, offset) == [s EXCEPT !.writePos = @ + offset]

seek(s, offset) == [s EXCEPT !.writePos = offset]

\* truncate: flush, then cut the file to `offset' bytes or extend it with
\* zero bytes, remap, and clamp the cursor
truncate(s, offset) ==
    LET f == clearBuffer(s)
        n == Len(f.file)
    IN [f EXCEPT !.file = IF offset <= n THEN SubSeq(@, 1, offset)
                          ELSE @ \o Zeros(offset - n),
                 !.writePos = Min(@, offset)]

\* SimpleFileMapperBase::openFile: file.map(path) of the whole file, which
\* reports an error when the path does not exist or cannot be mapped; the
\* error is thrown.  An existing file of length 0 is taken to map.
openFile(s, path) ==
    IF path.exists /\ path.mappable
      THEN [s EXCEPT !.status = "ok"]
      ELSE [s EXCEPT !.status = "threw"]

\* SimpleFileMapper<write>::SimpleFileMapper: the base constructor calls
\* openFile(), then writePos(size()) with an empty buffer
construct(s, path) ==
    LET b == openFile(s, path)
    IN IF b.status = "ok"
         THEN [b EXCEPT !.buffer = <<>>, !.writePos = Len(b.file)]
         ELSE b

\* a destructor that drops the buffer without flushing it
destroy_noFlush(s) == [s EXCEPT !.buffer = <<>>, !.status = "closed"]

\* SimpleFileMapper<write>::~SimpleFileMapper
destroy(s) == [clearBuffer(s) EXCEPT !.status = "closed"]

\* the byte getDataAtOffset(offset) points at, for offset < size()
getDataAtOffset(s, offset) ==
    LET fileEnd == Len(s.file)
    IN IF offset < fileEnd THEN s.file[offset + 1]
       ELSE s.buffer[offset - fileEnd + 1]

\* a < b after both are converted to size_t (same width, unsigned): a
\* negative number becomes one above every non-negative number
lessAsSizeT(a, b) ==
    IF (a < 0) = (b < 0) THEN a < b ELSE b < 0

\* What a call that returns a pointer yields: a handle into the mapping or
\* the buffer (region, at), nullptr, or a failed assert ("detected").  With
\* assertions compiled away the pointer is computed whatever the offset.
NullHandle == [kind |-> "null", region |-> "none", at |-> 0]
Detected == [kind |-> "detected", region |-> "none", at |-> 0]
Handle(region, at) == [kind |-> "handle", region |-> region, at |-> at]

\* write-mode getDataAtOffset whose assert forgets the Invalid sentinel
getDataAtOffsetPtr_noSentinel(s, offset, nd) ==
    LET fileEnd == Len(s.file)
    IN IF ~lessAsSizeT(offset, fileEnd + Len(s.buffer)) /\ ~nd
         THEN Detected
         ELSE IF offset = InvalidFileIndex THEN NullHandle
         ELSE IF offset < fileEnd THEN Handle("file", offset)
         ELSE Handle("buffer", offset - fileEnd)

\* SimpleFileMapper<write>::getDataAtOffset, the pointer it returns: in
\* assert(offset < fileEnd + buffer.size() || ...) the sum has the type of
\* buffer.size(), size_t, and offset is converted to it
getDataAtOffsetPtr(s, offset, nd) ==
    LET fileEnd == Len(s.file)
    IN IF ~(lessAsSizeT(offset, fileEnd + Len(s.buffer))
              \/ offset = InvalidFileIndex) /\ ~nd
         THEN Detected
         ELSE IF offset = InvalidFileIndex THEN NullHandle
         ELSE IF offset < fileEnd THEN Handle("file", offset)
         ELSE Handle("buffer", offset - fileEnd)

\* SimpleFileMapperBase<read>::getDataAtOffset on a mapping of `mapped'
\* bytes: size() is an OffsetType, the comparison is signed
Base_getDataAtOffset(mapped, offset, nd) ==
    IF offset = InvalidFileIndex THEN NullHandle
    ELSE IF ~(offset < mapped) /\ ~nd THEN Detected
    ELSE Handle("file", offset)

\* the logical bytes [0, size()) as read_at reads them
Logical(s) == [o \in 1..size(s) |-> getDataAtOffset(s, o - 1)]

\* ------------------------------------------------ SimpleFileMapperBase<read>
\* reload of a read-mode mapper: the length of the mapping afterwards, from
\* the length mapped so far (0: not open) and the size of the file on disk
\* (0: the file does not exist yet)
Base_reload(mapped, onDisk) ==
    IF onDisk > 0
      THEN IF mapped = 0 \/ onDisk # mapped THEN onDisk ELSE mapped
      ELSE 0

\* ------------------------------------------- ArbitraryLengthData<MainType>
\* finalize() padding by a whole alignment when the data is already aligned
finalize_padAlways(rawData, align) ==
    rawData \o Zeros(align - (Len(rawData) % align))

\* finalize(): rawData after the call, for alignof(MainType) = align
finalize(rawData, align) ==
    LET charsToAdd == Len(rawData) % align
    IN IF charsToAdd > 0
         THEN rawData \o Zeros(align - charsToAdd)
         ELSE rawData

\* ------------------------------------------------- FixedSizeFileMapper<T, write>
getPos(index, unitSize) == index * unitSize

Fixed_size(s, unitSize) == size(s) \div unitSize

Fixed_write(s, t, limit, nd) == write(s, t, limit, nd)

\* seek without the index -> offset conversion
Fixed_seek_raw(s, index, unitSize) == seek(s, index)

Fixed_seek(s, index, unitSize) == seek(s, getPos(index, unitSize))

\* truncate without the index -> offset conversion
Fixed_truncate_raw(s, index, unitSize) == truncate(s, index)

Fixed_truncate(s, index, unitSize) == truncate(s, getPos(index, unitSize))

\* operator[]: the record the returned pointer is read through
Fixed_get(s, index, unitSize) ==
    [j \in 1..unitSize |-> getDataAtOffset(s, getPos(index, unitSize) + j - 1)]

\* FixedSizeFileMapper<T, write>::operator[], the pointer it returns
Fixed_subscript(s, index, unitSize, nd) ==
    IF ~(index < Fixed_size(s, unitSize)) /\ ~nd THEN Detected
    ELSE getDataAtOffsetPtr(s, getPos(index, unitSize), nd)

\* FixedSizeFileMapper<T, read>::operator[] on a mapping of `mapped' bytes
Base_subscript(mapped, index, unitSize, nd) ==
    IF ~(index < mapped \div unitSize) /\ ~nd THEN Detected
    ELSE Base_getDataAtOffset(mapped, getPos(index, unitSize), nd)

\* all records of the array, in index order
Fixed_all(s, unitSize) == [i \in 1..Fixed_size(s, unitSize) |-> Fixed_get(s, i - 1, unitSize)]

\* ------------------------------------------- IndexedFileMapper<write, T0, T1>
\* A mapper is a record [dataFile, indexFile] of two stores.
EmptyMulti == [dataFile |-> EmptyStore, indexFile |-> EmptyStore]

Alive(m) == m.dataFile.status = "ok" /\ m.indexFile.status = "ok"

Indexed_size(m) == Fixed_size(m.indexFile, indexCount)

\* getOffsets(index): the tuple of the entry, streams numbered from 1
getOffsets(m, index) == Fixed_get(m.indexFile, index, indexCount)

\* getOffset<indexNum>(index), indexNum counted from 0 as in the source
getOffset(m, indexNum, index) == getOffsets(m, index)[indexNum + 1]

\* writeNewIndex that leaves no stream Invalid
writeNewIndex_allSet(m, limit, nd) ==
    LET fileIndex == [i \in 1..indexCount |-> m.dataFile.writePos]
    IN [m EXCEPT !.indexFile = Fixed_write(@, fileIndex, limit, nd).st]

\* writeNewImp up to indexFile.write(fileIndex)
writeNewIndex(m, limit, nd) ==
    LET fileIndex == [i \in 1..indexCount |->
                         IF i = 1 THEN m.dataFile.writePos ELSE InvalidFileIndex]
    IN [m EXCEPT !.indexFile = Fixed_write(@, fileIndex, limit, nd).st]

\* dataFile.write(valuePos, amountToWrite)
writeData(m, value, limit, nd) ==
    [m EXCEPT !.dataFile = write(@, value, limit, nd).st]

\* writeNewImp with the offset taken after the payload is written
writeNewImp_late(m, value, limit, nd) ==
    LET m1 == writeData(m, value, limit, nd)
    IN IF Alive(m1) THEN writeNewIndex(m1, limit, nd) ELSE m1

writeNewImp(m, value, limit, nd) ==
    LET m1 == writeNewIndex(m, limit, nd)
    IN IF Alive(m1) THEN writeData(m1, value, limit, nd) ELSE m1

\* a store through a pointer computed into the mapping whatever the offset
pokeAt_mapped(s, offset, val) ==
    LET fileEnd == Len(s.file)
    IN IF fileEnd > 0
         THEN [s EXCEPT !.file[(offset % fileEnd) + 1] = val]
         ELSE [s EXCEPT !.buffer[offset - fileEnd + 1] = val]

\* a store through a pointer that getDataAtOffset(offset) returned
pokeAt(s, offset, val) ==
    LET fileEnd == Len(s.file)
    IN IF offset < fileEnd
         THEN [s EXCEPT !.file[offset + 1] = val]
         ELSE [s EXCEPT !.buffer[offset - fileEnd + 1] = val]

\* writeUpdateImp up to fileIndex[indexNum] = dataFile.getWriteOffset();
\* the reference comes from the non-const operator[] of the index file
writeUpdateIndex(m, indexNum, addressNum, nd) ==
    IF addressNum < Indexed_size(m)
      THEN [m EXCEPT !.indexFile =
                pokeAt(@, getPos(addressNum, indexCount) + indexNum, m.dataFile.writePos)]
      ELSE [m EXCEPT !.indexFile.status = IF nd THEN "crashed" ELSE "aborted"]

\* writeUpdateImp with the offset taken after the payload is written
writeUpdateImp_late(m, indexNum, addressNum, value, limit, nd) ==
    LET m1 == writeData(m, value, limit, nd)
    IN IF Alive(m1) THEN writeUpdateIndex(m1, indexNum, addressNum, nd) ELSE m1

\* writeUpdateImp storing the offset in the first slot of the record
writeUpdateImp_slot0(m, indexNum, addressNum, value, limit, nd) ==
    LET m1 == writeUpdateIndex(m, 0, addressNum, nd)
    IN IF Alive(m1) THEN writeData(m1, value, limit, nd) ELSE m1

writeUpdateImp(m, indexNum, addressNum, value, limit, nd) ==
    LET m1 == writeUpdateIndex(m, indexNum, addressNum, nd)
    IN IF Alive(m1) THEN writeData(m1, value, limit, nd) ELSE m1

\* truncate that cuts the data store at its start, not at I[index][0]
Indexed_truncate_fromStart(m, index) ==
    IF index < Indexed_size(m)
      THEN [indexFile |-> Fixed_truncate(m.indexFile, index, indexCount),
            dataFile |-> truncate(m.dataFile, 0)]
      ELSE m

\* truncate that keeps the entry it was asked to drop
Indexed_truncate_keep(m, index) ==
    IF index < Indexed_size(m)
      THEN LET offsets == getOffsets(m, index)
           IN [indexFile |-> Fixed_truncate(m.indexFile, index + 1, indexCount),
               dataFile |-> truncate(m.dataFile, offsets[1])]
      ELSE m

Indexed_truncate(m, index) ==
    IF index < Indexed_size(m)
      THEN LET offsets == getOffsets(m, index)
           IN [indexFile |-> Fixed_truncate(m.indexFile, index, indexCount),
               dataFile |-> truncate(m.dataFile, offsets[1])]
      ELSE m

Indexed_seekEnd(m) ==
    [indexFile |-> seekEnd(m.indexFile), dataFile |-> seekEnd(m.dataFile)]

Indexed_seek(m, index, dataOffset) ==
    [indexFile |-> Fixed_seek(m.indexFile, index, indexCount),
     dataFile |-> seek(m.dataFile, dataOffset)]

grow(m, indexSize, dataSize) ==
    [indexFile |-> Fixed_truncate(m.indexFile,
                       Fixed_size(m.indexFile, indexCount) + indexSize, indexCount),
     dataFile |-> truncate(m.dataFile, size(m.dataFile) + dataSize)]

Indexed_clearBuffer(m) ==
    [indexFile |-> clearBuffer(m.indexFile), dataFile |-> clearBuffer(m.dataFile)]

Indexed_reload(m) ==
    [indexFile |-> reload(m.indexFile), dataFile |-> reload(m.dataFile)]

\* the n units getDataAtIndex<indexNum>(index) points at
getDataAtIndex(m, indexNum, index, n) ==
    LET offset == getOffset(m, indexNum, index)
    IN [j \in 1..n |-> getDataAtOffset(m.dataFile, offset + j - 1)]

\* getDataAtIndex<indexNum>(index), the pointer it returns; getOffset
\* asserts that the offset is inside the data store or Invalid
getDataAtIndexPtr(m, indexNum, index, nd) ==
    IF ~(index < Indexed_size(m)) /\ ~nd THEN Detected
    ELSE LET offset == getOffset(m, indexNum, index)
         IN IF ~(offset < size(m.dataFile) \/ offset = InvalidFileIndex) /\ ~nd
              THEN Detected
              ELSE getDataAtOffsetPtr(m.dataFile, offset, nd)

\* getData(index) for more than one stream: the tuple of pointers
getData(m, index, nd) ==
    IF ~(index < Indexed_size(m)) /\ ~nd THEN <<Detected>>
    ELSE LET offsets == getOffsets(m, index)
         IN [i \in 1..indexCount |-> getDataAtOffsetPtr(m.dataFile, offsets[i], nd)]

\* ------------------------------------------------------------ history values
NoCall == [op |-> "open", pre |-> EmptyStore, arg |-> <<>>, ret |-> FALSE]
NoHist == [appendOnly |-> TRUE, vals |-> <<>>]
NoLaw == [phase |-> "idle", snap |-> <<>>, pending |-> <<>>, k |-> 0, cursor |-> 0]
NoWriter == [at |-> "idle", value |-> <<>>, op |-> "none", k |-> 0]
NoReader == [indexLen |-> 0, dataLen |-> 0, at |-> "idle"]
NoSeen == [flushed |-> 0, mustSee |-> 0]

MultiIdle ==
    /\ dataFile = EmptyStore
    /\ indexFile = EmptyStore
    /\ wpc = NoWriter
    /\ reader = NoReader
    /\ seen = NoSeen

\* the writer's mapper
M == [dataFile |-> dataFile, indexFile |-> indexFile]

\* ------------------------------------------------- specification: ByteStore
InitByte ==
    /\ store = EmptyStore
    /\ maxBufferSize \in 0..MaxBufferLimit
    /\ ndebug \in BOOLEAN
    /\ last = NoCall
    /\ hist = NoHist
    /\ law = NoLaw
    /\ MultiIdle

ByteAppend(b) ==
    /\ store.status = "ok"
    /\ Max(size(store), store.writePos + Len(b)) <= MaxSize
    /\ LET r == write(store, b, maxBufferSize, ndebug)
       IN /\ store' = r.st
          /\ last' = [op |-> "append", pre |-> store, arg |-> b, ret |-> r.ret]
    /\ UNCHANGED <<multiVars, maxBufferSize, ndebug, hist, law>>

ByteFlush ==
    /\ store.status = "ok"
    /\ store' = clearBuffer(store)
    /\ last' = [op |-> "flush", pre |-> store, arg |-> <<>>, ret |-> FALSE]
    /\ UNCHANGED <<multiVars, maxBufferSize, ndebug, hist, law>>

ByteSeek(o) ==
    /\ store.status = "ok"
    /\ o <= size(store)
    /\ store' = seek(store, o)
    /\ last' = [op |-> "seek", pre |-> store, arg |-> <<o>>, ret |-> FALSE]
    /\ UNCHANGED <<multiVars, maxBufferSize, ndebug, hist, law>>

ByteSeekEnd ==
    /\ store.status = "ok"
    /\ store' = seekEnd(store)
    /\ last' = [op |-> "seekEnd", pre |-> store, arg |-> <<>>, ret |-> FALSE]
    /\ UNCHANGED <<multiVars, maxBufferSize, ndebug, hist, law>>

ByteTruncate(o) ==
    /\ store.status = "ok"
    /\ store' = truncate(store, o)
    /\ last' = [op |-> "truncate", pre |-> store, arg |-> <<o>>, ret |-> FALSE]
    /\ UNCHANGED <<multiVars, maxBufferSize, ndebug, hist, law>>

ByteReload ==
    /\ store.status = "ok"
    /\ store' = reload(store)
    /\ last' = [op |-> "reload", pre |-> store, arg |-> <<>>, ret |-> FALSE]
    /\ UNCHANGED <<multiVars, maxBufferSize, ndebug, hist, law>>

NextByte ==
    \/ \E b \in ByteStrings : ByteAppend(b)
    \/ ByteFlush
    \/ \E o \in 0..MaxSize : ByteSeek(o)
    \/ ByteSeekEnd
    \/ \E o \in 0..MaxSize : ByteTruncate(o)
    \/ ByteReload

SpecByte == InitByte /\ [][NextByte]_vars

\* ------------------------------------------------ specification: ArrayStore
InitArray == InitByte

ArrayAppend(v) ==
    /\ store.status = "ok"
    /\ law.phase # "replay"
    /\ Max(size(store), store.writePos + sizeofT) <= getPos(MaxLen, sizeofT)
    /\ store' = Fixed_write(store, v, maxBufferSize, ndebug).st
    /\ hist' = IF hist.appendOnly THEN [hist EXCEPT !.vals = Append(@, v)] ELSE hist
    /\ law' = NoLaw
    /\ UNCHANGED <<multiVars, maxBufferSize, ndebug, last>>

ArraySeek(i) ==
    /\ store.status = "ok"
    /\ law.phase # "replay"
    /\ i <= Fixed_size(store, sizeofT)
    /\ store' = Fixed_seek(store, i, sizeofT)
    /\ hist' = [appendOnly |-> FALSE, vals |-> <<>>]
    /\ law' = NoLaw
    /\ UNCHANGED <<multiVars, maxBufferSize, ndebug, last>>

ArraySeekEnd ==
    /\ store.status = "ok"
    /\ law.phase # "replay"
    /\ store' = seekEnd(store)
    /\ law' = NoLaw
    /\ UNCHANGED <<multiVars, maxBufferSize, ndebug, last, hist>>

ArrayFlush ==
    /\ store.status = "ok"
    /\ law.phase # "replay"
    /\ store' = clearBuffer(store)
    /\ law' = NoLaw
    /\ UNCHANGED <<multiVars, maxBufferSize, ndebug, last, hist>>

ArrayReload ==
    /\ store.status = "ok"
    /\ law.phase # "replay"
    /\ store' = reload(store)
    /\ law' = NoLaw
    /\ UNCHANGED <<multiVars, maxBufferSize, ndebug, last, hist>>

\* truncate(i); with `replay' the caller goes on to re-append the records
\* the call dropped, which ArrayReplay does one record at a time
ArrayTruncate(i, replay) ==
    /\ store.status = "ok"
    /\ law.phase # "replay"
    /\ store' = Fixed_truncate(store, i, sizeofT)
    /\ hist' = [appendOnly |-> FALSE, vals |-> <<>>]
    /\ law' = IF replay /\ i <= Fixed_size(store, sizeofT)
                THEN LET dropped == SubSeq(Fixed_all(store, sizeofT), i + 1, Fixed_size(store, sizeofT))
                     IN [phase |-> IF dropped = <<>> THEN "done" ELSE "replay",
                         snap |-> Fixed_all(store, sizeofT), pending |-> dropped,
                         k |-> i, cursor |-> store.writePos]
                ELSE NoLaw
    /\ UNCHANGED <<multiVars, maxBufferSize, ndebug, last>>

ArrayReplay ==
    /\ store.status = "ok"
    /\ law.phase = "replay"
    /\ store' = Fixed_write(store, Head(law.pending), maxBufferSize, ndebug).st
    /\ law' = [law EXCEPT !.pending = Tail(@),
                          !.phase = IF Tail(law.pending) = <<>> THEN "done" ELSE "replay"]
    /\ UNCHANGED <<multiVars, maxBufferSize, ndebug, last, hist>>

NextArray ==
    \/ \E v \in Records : ArrayAppend(v)
    \/ \E i \in 0..MaxLen : ArraySeek(i)
    \/ ArraySeekEnd
    \/ ArrayFlush
    \/ ArrayReload
    \/ \E i \in 0..MaxLen, replay \in BOOLEAN : ArrayTruncate(i, replay)
    \/ ArrayReplay

SpecArray == InitArray /\ [][NextArray]_vars

\* ------------------------------ specification: the cross-buffer-flush scenario
\* An ArrayStore of 8-byte records (one unit is one byte here), appended to
\* one record after another from empty; record number i consists of bytes i.
\* maxBufferSize ranges around the scenario's 64 bytes.
ScenarioBufferSizes == 56..72

ScenarioRecord(i) == [j \in 1..8 |-> i]

NoFlagsYet == [flags |-> <<>>]

InitScenario ==
    /\ store = EmptyStore
    /\ maxBufferSize \in ScenarioBufferSizes
    /\ ndebug \in BOOLEAN
    /\ last = NoCall
    /\ hist = NoFlagsYet
    /\ law = NoLaw
    /\ MultiIdle

\* FixedSizeFileMapper::write(t), the flush flag it returns recorded
ScenarioAppend ==
    /\ store.status = "ok"
    /\ Len(hist.flags) < MaxAppends
    /\ LET r == Fixed_write(store, ScenarioRecord(Len(hist.flags) + 1), maxBufferSize, ndebug)
       IN /\ store' = r.st
          /\ hist' = [flags |-> Append(hist.flags, r.ret)]
    /\ UNCHANGED <<multiVars, maxBufferSize, ndebug, last, law>>

NextScenario == ScenarioAppend

SpecScenario == InitScenario /\ [][NextScenario]_vars

\* C12 as stated: with MaxBufferBytes = 64 the 12th append of 8-byte
\* records to an empty ArrayStore returns the flush flag, and the file on
\* disk then holds at least 64 bytes.
C12_TwelfthAppendFlushes ==
    (maxBufferSize = 64 /\ Len(hist.flags) = 12) =>
        /\ hist.flags[12]
        /\ Len(store.file) >= 64

\* C12 amended: with MaxBufferBytes = 64 the 9th append is the first that
\* returns the flush flag (the buffer then holds 72 > 64 bytes), the file
\* on disk holds 72 >= 64 bytes after that flush, the 18th append is the
\* next that returns it and the 12th returns false; every record reads
\* back.
C12_NinthAppendFlushes ==
    maxBufferSize = 64 =>
        /\ store.status = "ok"
        /\ \A i \in 1..Len(hist.flags) : hist.flags[i] <=> (i % 9 = 0)
        /\ Len(hist.flags) >= 9 => Len(store.file) >= 72
        /\ Len(hist.flags) = 9 => (Len(store.file) = 72 /\ store.buffer = <<>>)
        /\ \A i \in 1..Len(hist.flags) : Fixed_get(store, i - 1, 8) = ScenarioRecord(i)

\* C12 witness: all the records appended, the 9th append having flushed.
C12_Witness ==
    /\ maxBufferSize = 64
    /\ Len(hist.flags) >= 20
    /\ hist.flags[9] /\ ~hist.flags[12]
    /\ Len(store.file) >= 64
    /\ Len(store.buffer) > 0

\* ------------------------------ specification: truncate and overwrite
\* An ArrayStore is filled by appends; then either the underlying ByteStore
\* is truncated at a byte offset (after an optional seek), or the array is
\* truncated at a record index and the caller seeks and appends a record.
FillRecords == {<<1, 2>>, <<2, 1>>}
OverwriteRecords == {<<3, 3>>, <<1, 2>>}

NoCut == [phase |-> "fill", pre |-> EmptyStore, o |-> 0, j |-> 0, x |-> <<>>]

InitCut ==
    /\ store = EmptyStore
    /\ maxBufferSize \in 0..MaxBufferLimit
    /\ ndebug \in BOOLEAN
    /\ last = NoCall
    /\ hist = NoHist
    /\ law = NoCut
    /\ MultiIdle

CutFill(v) ==
    /\ store.status = "ok" /\ law.phase = "fill"
    /\ Fixed_size(store, sizeofT) < MaxFill
    /\ store' = Fixed_write(store, v, maxBufferSize, ndebug).st
    /\ UNCHANGED <<multiVars, maxBufferSize, ndebug, last, hist, law>>

CutMove(j) ==
    /\ store.status = "ok" /\ law.phase = "fill"
    /\ j <= Fixed_size(store, sizeofT)
    /\ store' = Fixed_seek(store, j, sizeofT)
    /\ law' = [law EXCEPT !.phase = "moved"]
    /\ UNCHANGED <<multiVars, maxBufferSize, ndebug, last, hist>>

\* SimpleFileMapper<write>::truncate(o) at any byte offset
CutByte(o) ==
    /\ store.status = "ok" /\ law.phase \in {"fill", "moved"}
    /\ store' = truncate(store, o)
    /\ law' = [law EXCEPT !.phase = "cut", !.pre = store, !.o = o]
    /\ UNCHANGED <<multiVars, maxBufferSize, ndebug, last, hist>>

\* FixedSizeFileMapper::truncate(i) of the filled array
CutArray(i) ==
    /\ store.status = "ok" /\ law.phase = "fill"
    /\ store' = Fixed_truncate(store, i, sizeofT)
    /\ law' = [law EXCEPT !.phase = "truncated", !.pre = store, !.o = getPos(i, sizeofT)]
    /\ UNCHANGED <<multiVars, maxBufferSize, ndebug, last, hist>>

CutSeek(j) ==
    /\ store.status = "ok" /\ law.phase = "truncated"
    /\ j <= Fixed_size(store, sizeofT)
    /\ store' = Fixed_seek(store, j, sizeofT)
    /\ law' = [law EXCEPT !.phase = "sought", !.j = j]
    /\ UNCHANGED <<multiVars, maxBufferSize, ndebug, last, hist>>

CutAppend(x) ==
    /\ store.status = "ok" /\ law.phase = "sought"
    /\ store' = Fixed_write(store, x, maxBufferSize, ndebug).st
    /\ law' = [law EXCEPT !.phase = "done", !.x = x]
    /\ UNCHANGED <<multiVars, maxBufferSize, ndebug, last, hist>>

NextCut ==
    \/ \E v \in FillRecords : CutFill(v)
    \/ \E j \in 0..MaxFill : CutMove(j)
    \/ \E o \in 0..getPos(MaxFill + 1, sizeofT) : CutByte(o)
    \/ \E i \in 0..(MaxFill + 1) : CutArray(i)
    \/ \E j \in 0..(MaxFill + 1) : CutSeek(j)
    \/ \E x \in OverwriteRecords : CutAppend(x)

SpecCut == InitCut /\ [][NextCut]_vars

\* truncate(o) of the ByteStore, from the store before the call
ByteTruncatePost(pre, post, o) ==
    /\ post.status = "ok"
    /\ post.buffer = <<>>
    /\ size(post) = o
    /\ Len(post.file) = o
    /\ \A b \in 0..(Min(o, size(pre)) - 1) :
          getDataAtOffset(post, b) = getDataAtOffset(pre, b)
    /\ \A b \in size(pre)..(o - 1) : getDataAtOffset(post, b) = 0
    /\ post.writePos = Min(pre.writePos, o)

\* C14: after truncate(o) the buffer is empty, size() = on-disk size = o,
\* the bytes below min(o, old size) are unchanged (also those that were only
\* in the buffer), the bytes [old size, o) are zero, and the cursor is
\* min(old cursor, o); truncate(i), seek(i-1), append(x) on an array of up
\* to MaxFill records (truncate(3), seek(2), append(x) on 5 records) yields
\* len() = i and get(i-1) = x.
C14_Truncate ==
    /\ law.phase \in {"cut", "truncated"} => ByteTruncatePost(law.pre, store, law.o)
    /\ (law.phase = "done" /\ law.o > 0 /\ law.j = (law.o \div sizeofT) - 1) =>
          /\ store.status = "ok"
          /\ Fixed_size(store, sizeofT) = law.o \div sizeofT
          /\ Fixed_get(store, law.j, sizeofT) = law.x

\* C14 witness: truncate(3), seek(2), append(x) on a 5-element ArrayStore
\* whose last records were still in the buffer.
C14_Witness ==
    /\ law.phase = "done"
    /\ Fixed_size(law.pre, sizeofT) = 5
    /\ Len(law.pre.buffer) > 0
    /\ law.o = getPos(3, sizeofT)
    /\ law.j = 2
    /\ Fixed_get(law.pre, 2, sizeofT) # law.x

\* C14 witness of the ByteStore part: a truncate that extends the store
\* past bytes that were only in the buffer, the cursor inside the store.
C14_WitnessExtend ==
    /\ law.phase = "cut"
    /\ Len(law.pre.buffer) > 0
    /\ law.o > size(law.pre)
    /\ law.pre.writePos < size(law.pre)

\* ------------------------------------- specification: open, close and reopen
\* The path of a ByteStore either does not exist, or holds a file that can
\* or cannot be mapped; store.file is the content of the file on disk, also
\* while no instance is open (status "unopened", "closed" or "threw").
InitialFiles == {<<>>, <<1, 2>>}
OpenStrings == {<<1>>, <<2, 1>>}

NoOpen == [op |-> "none", pre |-> EmptyStore]
OtherOp == [op |-> "other", pre |-> EmptyStore]

InitOpen ==
    /\ \E f \in InitialFiles : store = [EmptyStore EXCEPT !.file = f, !.status = "unopened"]
    /\ law \in [exists : BOOLEAN, mappable : BOOLEAN]
    /\ ~law.exists => (store.file = <<>> /\ ~law.mappable)
    /\ maxBufferSize \in 0..MaxBufferLimit
    /\ ndebug \in BOOLEAN
    /\ last = NoOpen
    /\ hist = NoHist
    /\ MultiIdle

OpenFrame == UNCHANGED <<multiVars, maxBufferSize, ndebug, hist, law>>

\* a writer is constructed on the path, for the first time or again
Open ==
    /\ store.status \in {"unopened", "closed"}
    /\ store' = construct(store, law)
    /\ last' = IF store.status = "closed" THEN [last EXCEPT !.op = "reopen"]
               ELSE [op |-> "open", pre |-> store]
    /\ OpenFrame

\* the writer is destroyed
Close ==
    /\ store.status = "ok"
    /\ store' = destroy(store)
    /\ last' = [op |-> "close", pre |-> store]
    /\ OpenFrame

OpenAppend(b) ==
    /\ store.status = "ok"
    /\ Max(size(store), store.writePos + Len(b)) <= MaxSize
    /\ store' = write(store, b, maxBufferSize, ndebug).st
    /\ last' = OtherOp
    /\ OpenFrame

OpenSeek(o) ==
    /\ store.status = "ok"
    /\ o <= size(store)
    /\ store' = seek(store, o)
    /\ last' = OtherOp
    /\ OpenFrame

OpenTruncate(o) ==
    /\ store.status = "ok"
    /\ store' = truncate(store, o)
    /\ last' = OtherOp
    /\ OpenFrame

OpenFlush ==
    /\ store.status = "ok"
    /\ store' = clearBuffer(store)
    /\ last' = OtherOp
    /\ OpenFrame

NextOpen ==
    \/ Open
    \/ Close
    \/ \E b \in OpenStrings : OpenAppend(b)
    \/ \E o \in 0..MaxSize : OpenSeek(o)
    \/ \E o \in 0..MaxSize : OpenTruncate(o)
    \/ OpenFlush

SpecOpen == InitOpen /\ [][NextOpen]_vars

\* C15: closing a writer flushes its buffer: after any sequence of writer
\* operations followed by close and reopen as writer, the reopened store has
\* the size() and the bytes of the logical contents just before close, an
\* empty buffer, and its cursor at size().
C15_CloseReopen ==
    /\ last.op = "close" =>
          /\ store.buffer = <<>>
          /\ store.file = Logical(last.pre)
    /\ last.op = "reopen" =>
          /\ store.status = "ok"
          /\ size(store) = size(last.pre)
          /\ Logical(store) = Logical(last.pre)
          /\ store.buffer = <<>>
          /\ store.writePos = size(store)

\* C15 witness: a writer reopened after a close that found bytes in the
\* buffer and the cursor before the end.
C15_Witness ==
    /\ last.op = "reopen"
    /\ Len(last.pre.buffer) > 0
    /\ Len(last.pre.file) > 0
    /\ last.pre.writePos < size(last.pre)
    /\ store.status = "ok"

\* C16: opening a ByteStore on a path whose file does not exist succeeds
\* and yields a store with an empty mapping and size() = 0 (the first write
\* or flush creates the file); open raises an error only when the path
\* exists but cannot be mapped.
C16_OpenMissingFile ==
    last.op = "open" =>
        /\ ~law.exists => (store.status = "ok" /\ size(store) = 0 /\ store.file = <<>>)
        /\ store.status = "threw" => (law.exists /\ ~law.mappable)

\* C16, the part the code keeps: an existing file that cannot be mapped
\* makes open throw, one that can be mapped opens with size() equal to the
\* length of the file.
C16_OpenExistingFile ==
    (last.op = "open" /\ law.exists) =>
        /\ store.status = (IF law.mappable THEN "ok" ELSE "threw")
        /\ law.mappable => size(store) = Len(last.pre.file)

\* --------------------------------------- specification: ArbitraryLengthData
\* A builder is constructed from a head of sizeof(MainType) bytes, bytes are
\* added one at a time, and IndexedFileMapper::write(ArbitraryLengthData&)
\* finalizes it and passes it to writeNewImp of an empty mapper, whose
\* buffer threshold is above every payload.  One unit is one byte here.
Alignments == {1, 2, 4, 8}
StagedBytes == {0, 1}

NoBuilder == [phase |-> "staging", rawData |-> <<>>, staged |-> <<>>, align |-> 1, passed |-> 0]

InitBuilder ==
    /\ store = EmptyStore
    /\ maxBufferSize = MaxStaged + 8
    /\ ndebug \in BOOLEAN
    /\ last = NoCall
    /\ hist = NoHist
    /\ \E a \in Alignments :
          law = [NoBuilder EXCEPT !.align = a, !.rawData = [i \in 1..a |-> 1]]
    /\ MultiIdle

\* ArbitraryLengthData::add(t) of a one-byte t
BuilderAdd(b) ==
    /\ law.phase = "staging"
    /\ Len(law.rawData) < MaxStaged
    /\ law' = [law EXCEPT !.rawData = Append(@, b)]
    /\ UNCHANGED <<store, maxBufferSize, ndebug, last, hist, multiVars>>

\* IndexedFileMapper::write(ArbitraryLengthData &t), up to t.finalize()
BuilderFinalize ==
    /\ law.phase = "staging"
    /\ law' = [law EXCEPT !.phase = "finalized", !.staged = law.rawData,
                          !.rawData = finalize(law.rawData, law.align)]
    /\ UNCHANGED <<store, maxBufferSize, ndebug, last, hist, multiVars>>

\* IndexedFileMapper::write(ArbitraryLengthData &t): writeNewImp(finalData, t.size())
BuilderWrite ==
    /\ law.phase = "finalized"
    /\ LET amountToWrite == Len(law.rawData)
           m == writeNewImp(M, SubSeq(law.rawData, 1, amountToWrite), maxBufferSize, ndebug)
       IN /\ dataFile' = m.dataFile
          /\ indexFile' = m.indexFile
          /\ law' = [law EXCEPT !.phase = "written", !.passed = amountToWrite]
    /\ UNCHANGED <<store, maxBufferSize, ndebug, last, hist, wpc, reader, seen>>

NextBuilder ==
    \/ \E b \in StagedBytes : BuilderAdd(b)
    \/ BuilderFinalize
    \/ BuilderWrite

SpecBuilder == InitBuilder /\ [][NextBuilder]_vars

\* C17: for every staged length L and alignment a, after finalize() size()
\* is the least multiple of a that is >= L, the first L bytes are unchanged,
\* the added bytes (fewer than a) are all zero, and the length passed to
\* append_variable equals that size(); with a = 8 and 13 staged bytes the
\* result has length 16 and its last 3 bytes are zero.
C17_Finalize ==
    law.phase \in {"finalized", "written"} =>
        LET L == Len(law.staged)
            n == Len(law.rawData)
            a == law.align
        IN /\ n % a = 0
           /\ n >= L
           /\ n - L < a
           /\ \A k \in L..(n - 1) : k % a # 0
           /\ SubSeq(law.rawData, 1, L) = law.staged
           /\ \A i \in (L + 1)..n : law.rawData[i] = 0
           /\ (a = 8 /\ L = 13) => (n = 16 /\ SubSeq(law.rawData, 14, 16) = <<0, 0, 0>>)
           /\ law.phase = "written" =>
                 /\ law.passed = n
                 /\ Alive(M)
                 /\ size(dataFile) = n
                 /\ getDataAtIndex(M, 0, 0, n) = law.rawData

\* C17 witness: 13 bytes staged for an 8-aligned head, the last of them a
\* zero byte, finalized and appended.
C17_Witness ==
    /\ law.phase = "written"
    /\ law.align = 8
    /\ Len(law.staged) = 13
    /\ law.staged[13] = 0
    /\ law.passed = 16

\* ------------------------------------------- specification: reads by offset
\* A writer appends records to an ArrayStore and flushes; a read-mode
\* instance maps the same file at its reloads (reader.dataLen bytes).  Both
\* are read by byte offset (getDataAtOffset) and by record index
\* (operator[]), with offsets and indices inside and outside the store.
ReadOffsets == (-2..(getPos(MaxLen, sizeofT) + 1)) \cup {InvalidFileIndex}
ReadIndices == -2..(MaxLen + 1)

NoRead == [op |-> "none", mode |-> "none", arg |-> 0, sz |-> 0, res |-> NullHandle]

InitRead ==
    /\ store = EmptyStore
    /\ maxBufferSize \in 0..MaxBufferLimit
    /\ ndebug \in BOOLEAN
    /\ last = NoRead
    /\ hist = NoHist
    /\ law = NoLaw
    /\ MultiIdle

ReadFrame == UNCHANGED <<maxBufferSize, ndebug, hist, law, dataFile, indexFile, wpc, seen>>

ReadAppend(v) ==
    /\ store.status = "ok"
    /\ Fixed_size(store, sizeofT) < MaxLen
    /\ store' = Fixed_write(store, v, maxBufferSize, ndebug).st
    /\ last' = NoRead
    /\ UNCHANGED reader
    /\ ReadFrame

ReadFlush ==
    /\ store.status = "ok"
    /\ store' = clearBuffer(store)
    /\ last' = NoRead
    /\ UNCHANGED reader
    /\ ReadFrame

\* SimpleFileMapperBase<read>::reload of the read-mode instance
ReadReload ==
    /\ reader' = [reader EXCEPT !.dataLen = Base_reload(@, Len(store.file))]
    /\ last' = NoRead
    /\ UNCHANGED store
    /\ ReadFrame

\* read_at(o) on the writer
WriterReadAt(o) ==
    /\ store.status = "ok"
    /\ last' = [op |-> "read_at", mode |-> "write", arg |-> o, sz |-> size(store),
                res |-> getDataAtOffsetPtr(store, o, ndebug)]
    /\ UNCHANGED <<store, reader>>
    /\ ReadFrame

\* read_at(o) on the read-mode instance
ReaderReadAt(o) ==
    /\ last' = [op |-> "read_at", mode |-> "read", arg |-> o, sz |-> reader.dataLen,
                res |-> Base_getDataAtOffset(reader.dataLen, o, ndebug)]
    /\ UNCHANGED <<store, reader>>
    /\ ReadFrame

\* get(i) on the writer
WriterGet(i) ==
    /\ store.status = "ok"
    /\ last' = [op |-> "get", mode |-> "write", arg |-> i, sz |-> Fixed_size(store, sizeofT),
                res |-> Fixed_subscript(store, i, sizeofT, ndebug)]
    /\ UNCHANGED <<store, reader>>
    /\ ReadFrame

\* get(i) on the read-mode instance
ReaderGet(i) ==
    /\ last' = [op |-> "get", mode |-> "read", arg |-> i, sz |-> reader.dataLen \div sizeofT,
                res |-> Base_subscript(reader.dataLen, i, sizeofT, ndebug)]
    /\ UNCHANGED <<store, reader>>
    /\ ReadFrame

NextRead ==
    \/ \E v \in Records : ReadAppend(v)
    \/ ReadFlush
    \/ ReadReload
    \/ \E o \in ReadOffsets : WriterReadAt(o)
    \/ \E o \in ReadOffsets : ReaderReadAt(o)
    \/ \E i \in ReadIndices : WriterGet(i)
    \/ \E i \in ReadIndices : ReaderGet(i)

SpecRead == InitRead /\ [][NextRead]_vars

OutOfRange(x, n) == x < 0 \/ x >= n

\* C18: in a build with assertions, read_at(o) returns an absent handle iff
\* o = Invalid, every other o outside [0, size()), negative or >= size(), is
\* detected at the call instead of yielding a handle, and get(i) is detected
\* for every i outside [0, len()), negative ones included, in read and in
\* write mode.
C18_OutOfBounds ==
    ~ndebug =>
        /\ last.op = "read_at" =>
              /\ last.res.kind = "null" <=> last.arg = InvalidFileIndex
              /\ (last.arg # InvalidFileIndex /\ OutOfRange(last.arg, last.sz))
                    => last.res.kind = "detected"
        /\ (last.op = "get" /\ OutOfRange(last.arg, last.sz)) => last.res.kind = "detected"

\* C18 where the code keeps it: the same in write mode, and in read mode for
\* offsets and indices at or past the end.
C18_DetectedExceptNegativeRead ==
    ~ndebug =>
        /\ last.op = "read_at" =>
              /\ last.res.kind = "null" <=> last.arg = InvalidFileIndex
              /\ (last.arg # InvalidFileIndex /\ OutOfRange(last.arg, last.sz)
                     /\ (last.mode = "write" \/ last.arg >= 0))
                    => last.res.kind = "detected"
        /\ (last.op = "get" /\ OutOfRange(last.arg, last.sz)
               /\ (last.mode = "write" \/ last.arg >= 0))
              => last.res.kind = "detected"
        /\ (last.op # "none" /\ ~OutOfRange(last.arg, last.sz)) => last.res.kind = "handle"

\* ------------------------------------------ specification: MultiStreamStore
NoMultiCall == [op |-> "open", arg |-> <<>>, k |-> 0, n |-> 0]
OtherCall == [op |-> "other", arg |-> <<>>, k |-> 0, n |-> 0]
NoFlags == [seeked |-> FALSE, grown |-> FALSE, auxCut |-> FALSE]

AtEnd(s) == s.writePos = size(s)

\* truncate(index) would cut the data store below an auxiliary payload of
\* an entry that stays
CutsAux(m, index) ==
    /\ index < Indexed_size(m)
    /\ \E j \in 0..(index - 1) : \E i \in 1..(indexCount - 1) :
          /\ getOffset(m, i, j) # InvalidFileIndex
          /\ getOffset(m, i, j) >= getOffset(m, 0, index)

InitMulti ==
    /\ store = EmptyStore
    /\ law = NoLaw
    /\ maxBufferSize \in {0, MaxBufferLimit}
    /\ ndebug \in BOOLEAN
    /\ dataFile = EmptyStore
    /\ indexFile = EmptyStore
    /\ wpc = NoWriter
    /\ reader = NoReader
    /\ seen = NoSeen
    /\ last = NoMultiCall
    /\ hist = NoFlags

MultiSet(m) ==
    /\ dataFile' = m.dataFile
    /\ indexFile' = m.indexFile
    /\ UNCHANGED <<store, law, maxBufferSize, ndebug, wpc, reader, seen>>

MultiAppend(v) ==
    /\ Alive(M)
    /\ Indexed_size(M) < MaxEntries
    /\ size(dataFile) + Len(v) <= MaxData
    /\ MultiSet(writeNewImp(M, v, maxBufferSize, ndebug))
    /\ last' = [op |-> "append", arg |-> v, k |-> 0, n |-> 0]
    /\ UNCHANGED hist

MultiAttach(k, v) ==
    /\ Alive(M)
    /\ k < Indexed_size(M)
    /\ size(dataFile) + Len(v) <= MaxData
    /\ MultiSet(writeUpdateImp(M, 1, k, v, maxBufferSize, ndebug))
    /\ last' = [op |-> "attach", arg |-> v, k |-> k, n |-> 0]
    /\ UNCHANGED hist

MultiTruncate(k) ==
    /\ Alive(M)
    /\ MultiSet(Indexed_truncate(M, k))
    /\ last' = [op |-> "truncate", arg |-> <<>>, k |-> k, n |-> Indexed_size(M)]
    /\ hist' = [hist EXCEPT !.auxCut = @ \/ CutsAux(M, k)]

MultiGrow(indexSize, dataSize) ==
    /\ Alive(M)
    /\ Indexed_size(M) + indexSize <= MaxEntries
    /\ size(dataFile) + dataSize <= MaxData
    /\ MultiSet(grow(M, indexSize, dataSize))
    /\ last' = OtherCall
    /\ ~hist.seeked /\ ~hist.grown
    /\ hist' = [hist EXCEPT !.grown = TRUE]

MultiSeek(k, o) ==
    /\ Alive(M)
    /\ k <= Indexed_size(M)
    /\ o <= size(dataFile)
    /\ MultiSet(Indexed_seek(M, k, o))
    /\ last' = OtherCall
    /\ ~hist.seeked /\ ~hist.grown
    /\ hist' = [hist EXCEPT !.seeked = TRUE]

MultiSeekEnd ==
    /\ Alive(M)
    /\ MultiSet(Indexed_seekEnd(M))
    /\ last' = OtherCall
    /\ UNCHANGED hist

MultiFlush ==
    /\ Alive(M)
    /\ MultiSet(Indexed_clearBuffer(M))
    /\ last' = OtherCall
    /\ UNCHANGED hist

MultiReload ==
    /\ Alive(M)
    /\ MultiSet(Indexed_reload(M))
    /\ last' = OtherCall
    /\ UNCHANGED hist

NextMulti ==
    \/ \E v \in Payloads : MultiAppend(v)
    \/ \E k \in 0..(MaxEntries - 1), v \in Payloads : MultiAttach(k, v)
    \/ \E k \in 0..MaxEntries : MultiTruncate(k)
    \/ \E indexSize \in 0..1, dataSize \in 0..1 : MultiGrow(indexSize, dataSize)
    \/ \E k \in 0..MaxEntries, o \in 0..MaxData : MultiSeek(k, o)
    \/ MultiSeekEnd
    \/ MultiFlush
    \/ MultiReload

SpecMulti == InitMulti /\ [][NextMulti]_vars

\* every entry's stream-0 offset is valid and inside the data store
Stream0Inv(m) ==
    \A k \in 0..(Indexed_size(m) - 1) :
        /\ getOffset(m, 0, k) # InvalidFileIndex
        /\ getOffset(m, 0, k) < size(m.dataFile)

\* every auxiliary offset is Invalid or inside the data store
AuxInv(m) ==
    \A k \in 0..(Indexed_size(m) - 1) : \A i \in 1..(indexCount - 1) :
        \/ getOffset(m, i, k) = InvalidFileIndex
        \/ getOffset(m, i, k) < size(m.dataFile)

MNext == [dataFile |-> dataFile', indexFile |-> indexFile']

\* C2 as stated: after every completed operation of any sequence of append,
\* append_variable, attach, truncate, grow, seek, flush and reload from an
\* empty store, every entry k < len() has offsets(k)[0] valid and below
\* data.size().
C2_Stream0AnySequence == Alive(M) => Stream0Inv(M)

\* C2 amended: the same for sequences of append, append_variable, attach,
\* truncate, flush and reload, i.e. without seek and without grow.
C2_Stream0 == (Alive(M) /\ ~hist.seeked /\ ~hist.grown) => Stream0Inv(M)

\* C2 witness: two entries appended, a payload attached to entry 0, then
\* truncate(1) has cut the data store at entry 1.
C2_Witness ==
    /\ Alive(M) /\ ~hist.seeked /\ ~hist.grown /\ ~hist.auxCut
    /\ last.op = "truncate" /\ last.k = 1 /\ last.n = 2
    /\ Indexed_size(M) = 1
    /\ getOffset(M, 0, 0) = 0
    /\ getOffset(M, 1, 0) # InvalidFileIndex

\* C3 as stated: after any sequence of append, attach, truncate, grow and
\* flush every auxiliary offset I[k][i], i >= 1, is Invalid or below
\* data.size(), also for entries j < k after truncate(k) when stream i of
\* entry j was attached after entry k was appended.
C3_AuxAnySequence == (Alive(M) /\ ~hist.seeked) => AuxInv(M)

\* C3 amended: the same for sequences of append, attach, truncate and flush
\* (no grow) in which truncate(k) is never called while an entry j < k
\* carries an auxiliary offset at or above I[k][0].
C3_Aux ==
    (Alive(M) /\ ~hist.seeked /\ ~hist.grown /\ ~hist.auxCut) => AuxInv(M)

\* C3, the case the claim singles out, without grow: violated by append,
\* append, attach<1>(0, x), truncate(1).
C3_AuxAfterTruncate ==
    (Alive(M) /\ ~hist.seeked /\ ~hist.grown) => AuxInv(M)

\* C3 witness: an entry with an attached payload has survived a truncate
\* that dropped a later entry.
C3_Witness ==
    /\ Alive(M) /\ ~hist.seeked /\ ~hist.grown /\ ~hist.auxCut
    /\ last.op = "truncate" /\ last.k < last.n
    /\ Indexed_size(M) = 1
    /\ getOffset(M, 1, 0) # InvalidFileIndex
    /\ getOffset(M, 1, 0) < size(dataFile)

TruncatePost(pre, post, k) ==
    IF k < Indexed_size(pre)
      THEN /\ Indexed_size(post) = k
           /\ size(post.dataFile) = getOffset(pre, 0, k)
           /\ \A j \in 0..(k - 1) : getOffsets(post, j) = getOffsets(pre, j)
      ELSE post = pre

\* C7: truncate(k) with k < len() leaves len() = k, data.size() equal to the
\* value I[k][0] had before the call, and the offset tuples of all entries
\* j < k unchanged; with k >= len() it changes nothing (len(), data.size(),
\* all offsets, both cursors).
C7_Truncate ==
    [][last'.op = "truncate" => TruncatePost(M, MNext, last'.k)]_vars

\* C7 witness: truncate(1) on a store of two entries, entry 0 keeping its
\* tuple.
C7_Witness ==
    /\ Alive(M)
    /\ last.op = "truncate" /\ last.k = 1 /\ last.n = 2
    /\ Indexed_size(M) = 1
    /\ size(dataFile) > 0

AppendPost(pre, post, v) ==
    LET n == Indexed_size(pre)
        c == pre.dataFile.writePos
    IN /\ Alive(post)
       /\ Indexed_size(post) = n + 1
       /\ getOffsets(post, n) =
              [i \in 1..indexCount |-> IF i = 1 THEN c ELSE InvalidFileIndex]
       /\ size(post.dataFile) = size(pre.dataFile) + Len(v)
       /\ getDataAtIndex(post, 0, n, Len(v)) = v
       /\ \A j \in 0..(n - 1) : getOffsets(post, j) = getOffsets(pre, j)

\* C8: with both cursors at the end, append(value) increases len() by one,
\* the new last entry's tuple is (c, Invalid, ..., Invalid) with c the data
\* cursor before the call, get<0>(len()-1) reads back value, data.size()
\* grows by the payload size and the tuples of the earlier entries are
\* unchanged.
C8_Append ==
    [][(last'.op = "append" /\ AtEnd(dataFile) /\ AtEnd(indexFile))
          => AppendPost(M, MNext, last'.arg)]_vars

\* C8 witness: a second entry appended, with cursors at the end, after a
\* payload was attached to the first.
C8_Witness ==
    /\ Alive(M) /\ ~hist.seeked /\ ~hist.grown
    /\ last.op = "append"
    /\ Indexed_size(M) = 2
    /\ getOffset(M, 1, 0) # InvalidFileIndex
    /\ getOffset(M, 0, 1) = size(dataFile) - Len(last.arg)

AttachPost(pre, post, k, v) ==
    LET c == pre.dataFile.writePos
    IN /\ Alive(post)
       /\ Indexed_size(post) = Indexed_size(pre)
       /\ post.indexFile.writePos = pre.indexFile.writePos
       /\ getOffset(post, 1, k) = c
       /\ getOffset(post, 0, k) = getOffset(pre, 0, k)
       /\ \A j \in 0..(Indexed_size(pre) - 1) :
              j # k => getOffsets(post, j) = getOffsets(pre, j)
       /\ c + Len(v) <= size(post.dataFile)
       /\ getDataAtIndex(post, 1, k, Len(v)) = v

\* C9: attach<i>(k, value), i >= 1, k < len(), sets I[k][i] to the data
\* cursor before the call and get<i>(k) reads back value, while len(), the
\* index cursor, I[k][j] for j # i and the tuples of all other entries are
\* unchanged, whether the index record of k is in the mapped file or in the
\* index buffer.
C9_Attach ==
    [][last'.op = "attach" => AttachPost(M, MNext, last'.k, last'.arg)]_vars

\* C9 where the code keeps it: the data cursor is at the end of the data
\* store or inside the mapped data file when attach is called.
C9_AttachCursorOutsideBuffer ==
    [][(last'.op = "attach"
          /\ (AtEnd(dataFile) \/ dataFile.writePos + Len(last'.arg) <= Len(dataFile.file)))
          => AttachPost(M, MNext, last'.k, last'.arg)]_vars

\* stream-0 offsets strictly increase with the entry index, from 0
MonotoneStream0(m) ==
    /\ Indexed_size(m) > 0 => getOffset(m, 0, 0) = 0
    /\ \A j, k \in 0..(Indexed_size(m) - 1) :
           j < k => getOffset(m, 0, j) < getOffset(m, 0, k)

\* C22: in every state reachable from an empty MultiStreamStore by append,
\* append_variable, attach, flush, reload and truncate only (no seek, no
\* grow), stream-0 offsets are strictly increasing in the entry index and
\* I[0][0] = 0; hence the data store, which truncate(k) cuts at I[k][0],
\* still reaches beyond the primary offset of every entry that is left.
C22_MonotoneOffsets ==
    (Alive(M) /\ ~hist.seeked /\ ~hist.grown) =>
        /\ MonotoneStream0(M)
        /\ \A j \in 0..(Indexed_size(M) - 1) : getOffset(M, 0, j) < size(dataFile)

\* C22 witness: entry 1 was dropped by a truncate that also cut a payload
\* attached to entry 0, and a new entry 1 has been appended since.
C22_Witness ==
    /\ Alive(M) /\ ~hist.seeked /\ ~hist.grown
    /\ hist.auxCut
    /\ last.op = "append"
    /\ Indexed_size(M) = 2
    /\ getOffset(M, 0, 1) > 0

\* ------------------------- specification: one writer and one reader instance
\* The writer's calls proceed one store operation at a time (index store,
\* then data store); the reader's reload may run between any two of them.
InitRW == InitMulti

RWSet(m) ==
    /\ dataFile' = m.dataFile
    /\ indexFile' = m.indexFile
    /\ UNCHANGED <<store, law, maxBufferSize, ndebug, last>>

\* writeNewImp, first half: the index record is written
WriterAppendIndex(v) ==
    /\ Alive(M) /\ wpc.at = "idle"
    /\ Indexed_size(M) < MaxEntries
    /\ size(dataFile) + Len(v) <= MaxData
    /\ RWSet(writeNewIndex(M, maxBufferSize, ndebug))
    /\ wpc' = [at |-> "write", value |-> v, op |-> "append", k |-> Indexed_size(M)]
    /\ UNCHANGED <<reader, seen, hist>>

\* writeUpdateImp, first half: the offset is stored in the index record
WriterAttachIndex(k, v) ==
    /\ Alive(M) /\ wpc.at = "idle"
    /\ k < Indexed_size(M)
    /\ size(dataFile) + Len(v) <= MaxData
    /\ RWSet(writeUpdateIndex(M, 1, k, ndebug))
    /\ wpc' = [at |-> "write", value |-> v, op |-> "attach", k |-> k]
    /\ UNCHANGED <<reader, seen, hist>>

\* writeNewImp / writeUpdateImp, second half: the payload is written
WriterWriteData ==
    /\ Alive(M) /\ wpc.at = "write"
    /\ RWSet(writeData(M, wpc.value, maxBufferSize, ndebug))
    /\ wpc' = NoWriter
    /\ UNCHANGED <<reader, seen, hist>>

\* IndexedFileMapper::clearBuffer, first half
WriterFlushIndex ==
    /\ Alive(M) /\ wpc.at = "idle"
    /\ RWSet([M EXCEPT !.indexFile = clearBuffer(@)])
    /\ wpc' = [at |-> "flush", value |-> <<>>, op |-> "flush", k |-> 0]
    /\ UNCHANGED <<reader, seen, hist>>

\* IndexedFileMapper::clearBuffer, second half
WriterFlushData ==
    /\ Alive(M) /\ wpc.at = "flush"
    /\ RWSet([M EXCEPT !.dataFile = clearBuffer(@)])
    /\ wpc' = NoWriter
    /\ seen' = [seen EXCEPT !.flushed = Indexed_size(M)]
    /\ UNCHANGED <<reader, hist>>

\* IndexedFileMapper<write>::seek, between two calls of the writer
WriterSeek(k, o) ==
    /\ Alive(M) /\ wpc.at = "idle"
    /\ ~hist.seeked
    /\ k <= Indexed_size(M)
    /\ o <= size(dataFile)
    /\ RWSet(Indexed_seek(M, k, o))
    /\ hist' = [hist EXCEPT !.seeked = TRUE]
    /\ UNCHANGED <<wpc, reader, seen>>

\* IndexedFileMapper<read>::reload, first half: indexFile.reload()
ReaderReloadIndex ==
    /\ reader.at = "idle"
    /\ reader' = [reader EXCEPT !.indexLen = Base_reload(@, Len(indexFile.file)),
                                !.at = "data"]
    /\ seen' = [seen EXCEPT !.mustSee = seen.flushed]
    /\ UNCHANGED <<store, law, maxBufferSize, ndebug, last, hist, dataFile, indexFile, wpc>>

\* IndexedFileMapper<read>::reload, second half: dataFile.reload()
ReaderReloadData ==
    /\ reader.at = "data"
    /\ reader' = [reader EXCEPT !.dataLen = Base_reload(@, Len(dataFile.file)),
                                !.at = "idle"]
    /\ UNCHANGED <<store, law, maxBufferSize, ndebug, last, hist, dataFile, indexFile, wpc, seen>>

NextRW ==
    \/ \E v \in Payloads : WriterAppendIndex(v)
    \/ \E k \in 0..(MaxEntries - 1), v \in Payloads : WriterAttachIndex(k, v)
    \/ WriterWriteData
    \/ WriterFlushIndex
    \/ WriterFlushData
    \/ \E k \in 0..MaxEntries, o \in 0..MaxData : WriterSeek(k, o)
    \/ ReaderReloadIndex
    \/ ReaderReloadData

SpecRW == InitRW /\ [][NextRW]_vars

\* the reader's len(): records in its mapping of the index file
Reader_size == reader.indexLen \div indexCount

\* the reader's offsets(k)[indexNum], read through its mapping of the file
Reader_getOffset(indexNum, k) ==
    indexFile.file[getPos(k, indexCount) + indexNum + 1]

\* C10: for every interleaving of the writer's steps with the reader's
\* reload, after each completed reload the reader's view has
\* offsets(k)[0] < data.size() for all k < len(), and a reload that starts
\* after a completed writer flush observes every entry appended before
\* that flush.
C10_ReaderConsistent ==
    reader.at = "idle" =>
        /\ \A k \in 0..(Reader_size - 1) : Reader_getOffset(0, k) < reader.dataLen
        /\ Reader_size >= seen.mustSee

\* C10, second half alone: a reload that starts after a completed flush
\* observes every entry appended before that flush, with its payload.
C10_ReloadSeesFlushed ==
    reader.at = "idle" =>
        \A k \in 0..(seen.mustSee - 1) :
            /\ k < Reader_size
            /\ Reader_getOffset(0, k) < reader.dataLen

\* what the reader observes between reloads: the bytes of the shared
\* mappings in the ranges it mapped at its last reload, and their lengths
ReaderView ==
    [indexLen |-> reader.indexLen,
     dataLen |-> reader.dataLen,
     index |-> SubSeq(indexFile.file, 1, reader.indexLen),
     data |-> SubSeq(dataFile.file, 1, reader.dataLen)]

ReaderViewNext ==
    [indexLen |-> reader'.indexLen,
     dataLen |-> reader'.dataLen,
     index |-> SubSeq(indexFile'.file, 1, reader'.indexLen),
     data |-> SubSeq(dataFile'.file, 1, reader'.dataLen)]

\* the writer step stores only into append buffers: the index record of an
\* append and every payload go to a store whose cursor is at its end, the
\* index record of an attach is still in the index buffer
BufferOnlyStep ==
    /\ (wpc.at = "idle" /\ wpc'.at = "write" /\ wpc'.op = "append") => AtEnd(indexFile)
    /\ (wpc.at = "idle" /\ wpc'.at = "write" /\ wpc'.op = "attach") =>
           getPos(wpc'.k, indexCount) >= Len(indexFile.file)
    /\ (wpc.at = "write" /\ wpc'.at = "idle") => AtEnd(dataFile)

\* C11 as stated: between two reloads of the reader no writer step (append
\* at any cursor position, attach to an existing index record, a store
\* through a get_mut handle) changes a byte, size or offset the reader
\* observes.
C11_WriterIsolation ==
    [][reader' = reader => ReaderViewNext = ReaderView]_vars

\* C11 amended: a writer step that stores only into the append buffers (an
\* append with both cursors at the end, an attach to an entry whose index
\* record is still buffered), a threshold flush inside it and an explicit
\* flush change nothing the reader observes before its next reload.
C11_BufferIsolation ==
    [][(reader' = reader /\ BufferOnlyStep) => ReaderViewNext = ReaderView]_vars

\* C11 witness: the reader has mapped a flushed entry, and the writer has
\* then attached a payload to a later entry whose index record is buffered.
C11_Witness ==
    /\ Alive(M)
    /\ reader.at = "idle" /\ reader.indexLen >= indexCount /\ reader.dataLen > 0
    /\ wpc.at = "write" /\ wpc.op = "attach"
    /\ getPos(wpc.k, indexCount) >= Len(indexFile.file)
    /\ getOffset(M, 1, wpc.k) # InvalidFileIndex

\* C21: step order inside a primary append (cursor recorded, payload
\* written to the data store, then the index tuple appended): at every
\* intermediate step of append / append_variable, a threshold flush inside
\* the call or an abandonment between the two writes included, the index
\* holds no entry whose stream-0 offset is >= the data store's logical size.
C21_AppendOrder ==
    (Alive(M) /\ ~hist.seeked /\ wpc.op = "append") =>
        \A k \in 0..(Indexed_size(M) - 1) : getOffset(M, 0, k) < size(dataFile)

\* C21, at the end of the call only: once the second write of an append or
\* of an attach has returned, every stream-0 offset is below the data
\* store's logical size.
C21_AppendCompleted ==
    (Alive(M) /\ ~hist.seeked /\ wpc.at = "idle") =>
        \A k \in 0..(Indexed_size(M) - 1) : getOffset(M, 0, k) < size(dataFile)

\* C13: in every state reachable by open, append, flush, seek(o) with o in
\* [0, size()], seek_end, truncate and reload the write cursor is in
\* [0, size()]; seek(o) sets the cursor to exactly o and changes neither
\* size() nor any stored byte.
C13_CursorInRange ==
    /\ 0 <= store.writePos
    /\ store.writePos <= size(store)
    /\ last.op = "seek" =>
          /\ store.writePos = last.arg[1]
          /\ size(store) = size(last.pre)
          /\ Logical(store) = Logical(last.pre)
          /\ store.file = last.pre.file
          /\ store.buffer = last.pre.buffer

\* C13 witness: seek has moved the cursor from the end of a store with
\* bytes both on disk and in the buffer to a position inside the buffer.
C13_Witness ==
    /\ last.op = "seek"
    /\ last.pre.writePos = size(last.pre)
    /\ Len(store.file) > 0
    /\ store.writePos > Len(store.file)
    /\ store.writePos < size(store)

\* C19: for every entry k < len() and every stream i, get<i>(k) returns
\* absent (null) iff offsets(k)[i] = Invalid, the tuple get(k) has an absent
\* component exactly at the streams whose stored offset is Invalid, and
\* stream 0 of an entry is never absent.
C19_AbsenceEncoding ==
    Alive(M) =>
        \A k \in 0..(Indexed_size(M) - 1) :
            /\ \A i \in 0..(indexCount - 1) :
                  /\ getDataAtIndexPtr(M, i, k, ndebug).kind = "null"
                        <=> getOffsets(M, k)[i + 1] = InvalidFileIndex
                  /\ getData(M, k, ndebug)[i + 1].kind = "null"
                        <=> getOffsets(M, k)[i + 1] = InvalidFileIndex
            /\ getDataAtIndexPtr(M, 0, k, ndebug).kind # "null"
            /\ getData(M, k, ndebug)[1].kind # "null"

\* C19 witness: two entries, the first with a payload attached to stream 1
\* and read through a handle, the second with stream 1 absent.
C19_Witness ==
    /\ Alive(M)
    /\ Indexed_size(M) = 2
    /\ getDataAtIndexPtr(M, 1, 0, ndebug).kind = "handle"
    /\ getDataAtIndexPtr(M, 1, 1, ndebug).kind = "null"
    /\ getData(M, 1, ndebug)[1].kind = "handle"

\* the flush flag of an append that returned, from the store before the call
FlushFlagPost(pre, post, n, ret, limit) ==
    LET c == pre.writePos
        extended == c + n > size(pre)
        bufferAfter == Len(pre.buffer) + (c + n - size(pre))
        flushed == Len(post.file) # Len(pre.file)
    IN /\ ret <=> flushed
       /\ flushed <=> (extended /\ bufferAfter > limit)
       /\ ~extended => (~ret /\ Len(post.buffer) = Len(pre.buffer))
       /\ ret => (post.buffer = <<>> /\ Len(post.file) = size(post))

\* C20: append returns true iff a flush was performed inside the call,
\* which happens exactly when the call extended the buffer and the buffer
\* length after the extension exceeds MaxBufferBytes; an append wholly
\* absorbed by the mapping or by existing buffer space returns false and
\* does not flush; when append returns true the buffer is empty and the
\* mapped size equals size().
C20_FlushFlag ==
    (last.op = "append" /\ store.status = "ok") =>
        FlushFlagPost(last.pre, store, Len(last.arg), last.ret, maxBufferSize)

\* C20 where the code keeps it: the cursor is at the end of the store, or
\* the bytes fit in the mapping below the cursor.
C20_FlushFlagOutsideBuffer ==
    (last.op = "append" /\ store.status = "ok"
       /\ (AtEnd(last.pre) \/ last.pre.writePos + Len(last.arg) <= Len(last.pre.file))) =>
        FlushFlagPost(last.pre, store, Len(last.arg), last.ret, maxBufferSize)

\* the buffer length an append of n bytes at the cursor of `pre' would
\* leave if it did not flush
BufferIfKept(pre, n) ==
    Len(pre.buffer) + Max(0, pre.writePos + n - size(pre))

\* C23: after every completed ByteStore operation (append, flush, truncate,
\* reload, seek) in any sequence the append buffer holds at most
\* MaxBufferBytes bytes; an append that would leave it larger flushes before
\* returning, and flush, truncate and write-mode reload each leave the
\* buffer empty.
C23_BoundedBuffer ==
    store.status = "ok" =>
        /\ Len(store.buffer) <= maxBufferSize
        /\ last.op \in {"flush", "truncate", "reload"} => store.buffer = <<>>
        /\ (last.op = "append" /\ BufferIfKept(last.pre, Len(last.arg)) > maxBufferSize) =>
               /\ last.ret
               /\ store.buffer = <<>>
               /\ Len(store.file) > Len(last.pre.file)

\* C23 witness: the buffer was full to the threshold and the next append,
\* at the end of the store, flushed it together with the new bytes.
C23_Witness ==
    /\ store.status = "ok"
    /\ last.op = "append" /\ last.ret
    /\ maxBufferSize > 0
    /\ Len(last.pre.buffer) = maxBufferSize
    /\ AtEnd(last.pre)
    /\ store.buffer = <<>>
    /\ Len(store.file) = Len(last.pre.file) + maxBufferSize + Len(last.arg)

\* C4: append(b) at cursor c writes b to the logical bytes [c, c+n), leaves
\* every other logical byte unchanged, moves the cursor to c+n and makes
\* size() the larger of the old size and c+n, wherever the cursor is.
C4_AppendAtCursor ==
    last.op = "append" =>
        LET c == last.pre.writePos
            n == Len(last.arg)
            old == Logical(last.pre)
        IN /\ store.status = "ok"
           /\ store.writePos = c + n
           /\ size(store) = Max(size(last.pre), c + n)
           /\ \A i \in 1..size(store) :
                 getDataAtOffset(store, i - 1) =
                     IF c < i /\ i <= c + n THEN last.arg[i - c] ELSE old[i]

\* C1: starting from an empty ArrayStore with the cursor at the end, after
\* appending v0..v(n-1) in order, len() = n and get(i) = v_i for every i,
\* for every maxBufferSize, whichever appends flushed and wherever element
\* i lives (mapped file or append buffer).
C1_RoundTrip ==
    hist.appendOnly =>
        /\ store.status = "ok"
        /\ Fixed_size(store, sizeofT) = Len(hist.vals)
        /\ \A i \in 1..Len(hist.vals) : Fixed_get(store, i - 1, sizeofT) = hist.vals[i]

\* C1 witness: three appended records, the first in the mapped file after a
\* threshold flush, the last still in the append buffer.
C1_Witness ==
    /\ hist.appendOnly
    /\ Len(hist.vals) = 3
    /\ Len(store.file) > 0
    /\ Len(store.buffer) > 0
    /\ hist.vals[1] # hist.vals[3]

\* C5: in every reachable state of a writer size() = mapped size + buffer
\* length, and for an ArrayStore driven through append, seek(i), seek_end,
\* truncate(i), flush and reload the logical size is a multiple of
\* sizeof(T), so that len() * sizeof(T) = size().
C5_LogicalSize ==
    /\ size(store) = Len(store.file) + Len(store.buffer)
    /\ size(store) % sizeofT = 0
    /\ Fixed_size(store, sizeofT) * sizeofT = size(store)

\* C5 witness: after a seek or truncate, records both in the file and in
\* the buffer, cursor inside the mapped file.
C5_Witness ==
    /\ ~hist.appendOnly
    /\ store.status = "ok"
    /\ Len(store.file) > 0
    /\ Len(store.buffer) > 0
    /\ store.writePos < Len(store.file)

\* C6 as stated: from any reachable state, also with the cursor moved by
\* seek, truncate(k) for k <= len() followed by re-appending the dropped
\* records k..len()-1 restores len() and every record.
C6_TruncateAppendAnyCursor ==
    law.phase = "done" =>
        /\ store.status = "ok"
        /\ Fixed_all(store, sizeofT) = law.snap

\* C6 amended: the law holds when the cursor is at or past record k when
\* truncate(k) is called (the cursor is then at the new end, and the
\* re-appended records land where they were).
C6_TruncateAppend ==
    (law.phase = "done" /\ law.cursor >= getPos(law.k, sizeofT)) =>
        /\ store.status = "ok"
        /\ Fixed_all(store, sizeofT) = law.snap

\* C6 witness: two records dropped from a three-record store whose cursor a
\* seek had left before the end, and re-appended.
C6_Witness ==
    /\ law.phase = "done"
    /\ Len(law.snap) = 3
    /\ law.k = 1
    /\ law.cursor = getPos(2, sizeofT)
    /\ store.status = "ok"

====
